---- MODULE Spec2Model ----
(***************************************************************************)
(* AdminUsersPage (src/src/pages/AdminUsersPage.tsx): the React component  *)
(* that lists, filters, edits and deletes user records.                    *)
(*                                                                         *)
(* A state of the model is a settled state of the component: a render has  *)
(* been committed and its effects have run.  Every action is one event     *)
(* handler, or one continuation of an async handler after an await,        *)
(* followed by the re-render and the effects that the state change         *)
(* triggers.  An async handler is a closure over the values of the render  *)
(* in which it was started: what it reads after an await are the values    *)
(* it captured, not the current state.                                     *)
(***************************************************************************)
EXTENDS Integers, Sequences, FiniteSets, TLC

VARIABLES
    authUser,       \* role of the session user of useAuthStore, "none" if absent
    users,          \* useState users
    filteredUsers,  \* useState filteredUsers
    searchTerm,     \* useState searchTerm
    filterRole,     \* useState filterRole
    filterStatus,   \* useState filterStatus
    isLoading,      \* useState isLoading
    error,          \* useState error
    isModalOpen,    \* useState isModalOpen
    selectedUser,   \* useState selectedUser
    editForm,       \* useState editForm
    fetchState,     \* the fetchUsers call of the mount effect
    ops,            \* the handleSaveChanges / deleteUser calls of this mount
    serialUsers,    \* history: the successful operations' effects, in completion order
    lastConfirm,    \* history: what window.confirm returned in the last step, "none" if not called
    fetched,        \* history: the data the fetchUsers call of this mount returned
    identityStore   \* the identity records (auth.users) of the fetched users

vars == <<authUser, users, filteredUsers, searchTerm, filterRole, filterStatus,
          isLoading, error, isModalOpen, selectedUser, editForm,
          fetchState, ops, serialUsers, lastConfirm, fetched, identityStore>>

----------------------------------------------------------------------------
(* Bounds *)

\* number of user records the backend may hold
MaxUsers == 2

\* number of save / delete calls started in one mount
MaxOps == 2

----------------------------------------------------------------------------
(* Values.  A string is a sequence of characters, so that toLowerCase and  *)
(* includes are computed and not assumed.                                  *)

NULL == "null"

Roles == {"admin", "moderator", "user"}

Sessions == {"none"} \cup Roles

\* the values typed into the search input
SearchTerms == {<<>>, <<"A", "B">>}

\* the options chosen in the two selects of the filter panel, among
\* RoleOptions and StatusOptions
RoleInputs == {"", "user"}

StatusInputs == {"", "blocked"}

\* the values given to the inputs of the edit modal
DraftNames == {<<"b">>}

DraftEmails == {<<"a">>}

DraftRoles == {"moderator"}

\* option values of the role select of the filter panel
RoleOptions == {""} \cup Roles

\* option values of the status select of the filter panel
StatusOptions == {"", "active", "blocked"}

\* useState<UserType | null>(null)
NoUser == [id |-> 0, username |-> <<>>, email |-> <<>>, role |-> "", created_at |-> 0]

\* useState({ username: '', email: '', role: '' })
EmptyForm == [username |-> <<>>, email |-> <<>>, role |-> ""]

\* the record the backend holds for an id before any edit
BackendUser(i) ==
    [id |-> i,
     username |-> IF i % 2 = 1 THEN <<"A", "b">> ELSE <<"b">>,
     email |-> IF i % 3 = 1 THEN <<"a">> ELSE <<"B">>,
     role |-> IF i = 1 THEN "admin" ELSE IF i = 2 THEN "user" ELSE "moderator",
     created_at |-> i]

Ids == 1..MaxUsers

OpIds == 1..MaxOps

\* an async handler call: the values its closure captured when it was started
\* (target, users, form) and the state of its two backend calls,
\* "none" (not issued), "pending", "ok" or "error"
NoOp == [kind |-> "none", target |-> 0, users |-> <<>>, form |-> EmptyForm,
         auth |-> "none", db |-> "none"]

----------------------------------------------------------------------------
(* Pure functions of the component *)

\* String.prototype.toLowerCase, one character
LowerChar(c) ==
    CASE c = "A" -> "a"
      [] c = "B" -> "b"
      [] OTHER -> c

\* String.prototype.toLowerCase
toLowerCase(s) == [i \in 1..Len(s) |-> LowerChar(s[i])]

\* String.prototype.includes: t occurs in s as a contiguous substring
includes(s, t) ==
    \E i \in 0..(Len(s) - Len(t)) : SubSeq(s, i + 1, i + Len(t)) = t

\* the search callback without toLowerCase
matchesSearch_CaseSensitive(u, st) ==
    \/ includes(u.username, st)
    \/ includes(u.email, st)

matchesSearch(u, st) ==
    \/ includes(toLowerCase(u.username), toLowerCase(st))
    \/ includes(toLowerCase(u.email), toLowerCase(st))

\* the role test without filterRole === ''
matchesRole_NoAll(u, fr) == u.role = fr

matchesRole(u, fr) == fr = "" \/ u.role = fr

\* the status test without filterStatus === 'active'
matchesStatus_OnlyEmpty(fs) == fs = ""

matchesStatus(fs) == fs = "" \/ fs = "active"

\* the callback of users.filter in the filter effect
Matches(u, st, fr, fs) ==
    matchesSearch(u, st) /\ matchesRole(u, fr) /\ matchesStatus(fs)

\* Array.prototype.filter with the callback u.id !== id
RECURSIVE RemoveUser(_, _)
RemoveUser(us, id) ==
    IF us = <<>> THEN <<>>
    ELSE IF Head(us).id # id
         THEN <<Head(us)>> \o RemoveUser(Tail(us), id)
         ELSE RemoveUser(Tail(us), id)

\* a filter written as a loop that splices the array it iterates over: the
\* element that follows a removed one is skipped
RECURSIVE Filtered_SpliceLoop(_, _, _, _)
Filtered_SpliceLoop(us, st, fr, fs) ==
    IF us = <<>> THEN <<>>
    ELSE IF Matches(Head(us), st, fr, fs)
         THEN <<Head(us)>> \o Filtered_SpliceLoop(Tail(us), st, fr, fs)
         ELSE IF Len(us) >= 2
              THEN <<us[2]>> \o Filtered_SpliceLoop(Tail(Tail(us)), st, fr, fs)
              ELSE <<>>

\* Array.prototype.filter with the callback of the filter effect
RECURSIVE Filtered(_, _, _, _)
Filtered(us, st, fr, fs) ==
    IF us = <<>> THEN <<>>
    ELSE IF Matches(Head(us), st, fr, fs)
         THEN <<Head(us)>> \o Filtered(Tail(us), st, fr, fs)
         ELSE Filtered(Tail(us), st, fr, fs)

\* { ...user, ...editForm }
Merge(u, form) ==
    [u EXCEPT !.username = form.username, !.email = form.email, !.role = form.role]

\* the edited copy appended to the list instead of replacing the record:
\* [...users, { ...selectedUser, ...editForm }]
PatchUsers_Append(us, id, form) ==
    LET hit == SelectSeq(us, LAMBDA u : u.id = id)
    IN us \o [k \in 1..Len(hit) |-> Merge(hit[k], form)]

\* users.map(user => user.id === selectedUser.id ? { ...user, ...editForm } : user)
PatchUsers(us, id, form) ==
    [k \in 1..Len(us) |-> IF us[k].id = id THEN Merge(us[k], form) ELSE us[k]]

\* .order('created_at', { ascending: false }) over the records of the ids in S
RECURSIVE OrderedDesc(_)
OrderedDesc(S) ==
    IF S = {} THEN <<>>
    ELSE LET m == CHOOSE i \in S : \A j \in S : BackendUser(j).created_at <= BackendUser(i).created_at
         IN <<BackendUser(m)>> \o OrderedDesc(S \ {m})

\* what select('*') may return: the records the backend holds
FetchResults == {OrderedDesc(S) : S \in SUBSET Ids}

IdsOf(us) == {us[k].id : k \in 1..Len(us)}

----------------------------------------------------------------------------
(* Rendering *)

\* the access check without the test of the role: if (!user) return <Navigate to="/" />
Page_AnyUser == authUser # "none"

\* if (!user || user.role !== 'admin') return <Navigate to="/" />
Page == authUser = "admin"

\* the rows of the table, each with its two buttons
Rows == IF isLoading THEN {} ELSE 1..Len(filteredUsers)

\* {isModalOpen && selectedUser && (...)}
ModalShown == isModalOpen /\ selectedUser # NoUser

\* {error && (...)}
BannerShown == error # NULL

\* the dependency array without users: [searchTerm, filterRole, filterStatus]
FilterEffectDeps_WithoutUsers(setUsersCalled) ==
    \/ searchTerm' # searchTerm
    \/ filterRole' # filterRole
    \/ filterStatus' # filterStatus

\* the dependency array of the filter effect: whether the effect runs after
\* the render that follows this step.  setUsers always stores a new array.
FilterEffectDeps(setUsersCalled) ==
    \/ setUsersCalled
    \/ searchTerm' # searchTerm
    \/ filterRole' # filterRole
    \/ filterStatus' # filterStatus

\* the render that follows a step and its effects; direct is the value the
\* step itself left in filteredUsers
Render(setUsersCalled, direct) ==
    filteredUsers' =
        IF FilterEffectDeps(setUsersCalled)
        THEN Filtered(users', searchTerm', filterRole', filterStatus')
        ELSE direct

FreeOps == {i \in OpIds : ops[i].kind = "none"}

NextOp == CHOOSE i \in FreeOps : \A j \in FreeOps : i <= j

\* a handler call whose promise has settled keeps no closure
Settled(op, auth, db) ==
    [kind |-> op.kind, target |-> 0, users |-> <<>>, form |-> EmptyForm,
     auth |-> auth, db |-> db]

\* the identity record that goes with a profile record
IdentityOf(u) == [id |-> u.id, email |-> u.email, username |-> u.username]

\* supabase.auth.admin.updateUserById(id, {email, user_metadata: {username}}), when it succeeds
updateUserById(store, id, form) ==
    {IF r.id = id THEN [id |-> id, email |-> form.email, username |-> form.username]
                  ELSE r : r \in store}

\* supabase.auth.admin.deleteUser(id), when it succeeds
authDeleteUser(store, id) == {r \in store : r.id # id}

----------------------------------------------------------------------------
(* Mount *)

Mount ==
    /\ users = <<>>
    /\ filteredUsers = <<>>
    /\ searchTerm = <<>>
    /\ filterRole = ""
    /\ filterStatus = ""
    /\ isLoading = TRUE
    /\ error = NULL
    /\ isModalOpen = FALSE
    /\ selectedUser = NoUser
    /\ editForm = EmptyForm
    /\ fetchState = IF Page THEN "pending" ELSE "none"
    /\ ops = [i \in OpIds |-> NoOp]
    /\ serialUsers = <<>>
    /\ lastConfirm = "none"
    /\ fetched = <<>>
    /\ identityStore = {}

Init ==
    /\ authUser \in Sessions
    /\ Mount

----------------------------------------------------------------------------
(* fetchUsers *)

\* fetchUsers without its finally block, the fetch succeeding
FetchSuccess_NoFinally(data) ==
    /\ Page
    /\ fetched' = data
    /\ identityStore' = {IdentityOf(data[k]) : k \in DOMAIN data}
    /\ fetchState = "pending"
    /\ fetchState' = "ok"
    /\ users' = data
    /\ serialUsers' = data
    /\ lastConfirm' = "none"
    /\ UNCHANGED <<authUser, searchTerm, filterRole, filterStatus, isLoading, error,
                   isModalOpen, selectedUser, editForm, ops>>
    /\ Render(TRUE, data)

\* the select resolves with the records: the try block and the finally block
FetchSuccess(data) ==
    /\ Page
    /\ fetched' = data
    /\ identityStore' = {IdentityOf(data[k]) : k \in DOMAIN data}
    /\ fetchState = "pending"
    /\ fetchState' = "ok"
    /\ users' = data
    /\ isLoading' = FALSE
    /\ serialUsers' = data
    /\ lastConfirm' = "none"
    /\ UNCHANGED <<authUser, searchTerm, filterRole, filterStatus, error,
                   isModalOpen, selectedUser, editForm, ops>>
    /\ Render(TRUE, data)

\* fetchUsers without its finally block
FetchFailure_NoFinally ==
    /\ Page
    /\ UNCHANGED <<fetched, identityStore>>
    /\ fetchState = "pending"
    /\ fetchState' = "failed"
    /\ error' = "fetchError"
    /\ lastConfirm' = "none"
    /\ UNCHANGED <<authUser, users, searchTerm, filterRole, filterStatus, isLoading,
                   isModalOpen, selectedUser, editForm, ops, serialUsers>>
    /\ Render(FALSE, filteredUsers)

FetchFailure ==
    /\ Page
    /\ UNCHANGED <<fetched, identityStore>>
    /\ fetchState = "pending"
    /\ fetchState' = "failed"
    /\ error' = "fetchError"
    /\ isLoading' = FALSE
    /\ lastConfirm' = "none"
    /\ UNCHANGED <<authUser, users, searchTerm, filterRole, filterStatus, isModalOpen, selectedUser, editForm, ops, serialUsers>>
    /\ Render(FALSE, filteredUsers)

\* window.location.reload() of the banner's button: the page is mounted anew
Reload ==
    /\ Page
    /\ BannerShown
    /\ authUser' = authUser
    /\ users' = <<>>
    /\ filteredUsers' = <<>>
    /\ searchTerm' = <<>>
    /\ filterRole' = ""
    /\ filterStatus' = ""
    /\ isLoading' = TRUE
    /\ error' = NULL
    /\ isModalOpen' = FALSE
    /\ selectedUser' = NoUser
    /\ editForm' = EmptyForm
    /\ fetchState' = "pending"
    /\ ops' = [i \in OpIds |-> NoOp]
    /\ serialUsers' = <<>>
    /\ lastConfirm' = "none"
    /\ fetched' = <<>>
    /\ identityStore' = {}

\* the user of useAuthStore changes (sign-out, sign-in as another user): the
\* view of the former session is gone with its state, and the page, when it
\* is visited in the new session, is mounted anew
SessionChange(s) ==
    /\ s # authUser
    /\ authUser' = s
    /\ users' = <<>>
    /\ filteredUsers' = <<>>
    /\ searchTerm' = <<>>
    /\ filterRole' = ""
    /\ filterStatus' = ""
    /\ isLoading' = TRUE
    /\ error' = NULL
    /\ isModalOpen' = FALSE
    /\ selectedUser' = NoUser
    /\ editForm' = EmptyForm
    /\ fetchState' = IF s = "admin" THEN "pending" ELSE "none"
    /\ ops' = [i \in OpIds |-> NoOp]
    /\ serialUsers' = <<>>
    /\ lastConfirm' = "none"
    /\ fetched' = <<>>
    /\ identityStore' = {}

----------------------------------------------------------------------------
(* Search and filter controls.  The panel toggle showFilters only shows or  *)
(* hides the two selects and the reset button; it is left out, the         *)
(* controls being reachable in every state by toggling the panel first.    *)

SetSearchTerm(t) ==
    /\ Page
    /\ UNCHANGED <<fetched, identityStore>>
    /\ t # searchTerm
    /\ searchTerm' = t
    /\ lastConfirm' = "none"
    /\ UNCHANGED <<authUser, users, filterRole, filterStatus, isLoading, error, isModalOpen, selectedUser, editForm, fetchState, ops,
                   serialUsers>>
    /\ Render(FALSE, filteredUsers)

SetFilterRole(r) ==
    /\ Page
    /\ UNCHANGED <<fetched, identityStore>>
    /\ r # filterRole
    /\ filterRole' = r
    /\ lastConfirm' = "none"
    /\ UNCHANGED <<authUser, users, searchTerm, filterStatus, isLoading, error, isModalOpen, selectedUser, editForm, fetchState, ops,
                   serialUsers>>
    /\ Render(FALSE, filteredUsers)

SetFilterStatus(s) ==
    /\ Page
    /\ UNCHANGED <<fetched, identityStore>>
    /\ s # filterStatus
    /\ filterStatus' = s
    /\ lastConfirm' = "none"
    /\ UNCHANGED <<authUser, users, searchTerm, filterRole, isLoading, error, isModalOpen, selectedUser, editForm, fetchState, ops,
                   serialUsers>>
    /\ Render(FALSE, filteredUsers)

ResetFilters ==
    /\ Page
    /\ UNCHANGED <<fetched, identityStore>>
    /\ filterRole' = ""
    /\ filterStatus' = ""
    /\ lastConfirm' = "none"
    /\ UNCHANGED <<authUser, users, searchTerm, isLoading, error,
                   isModalOpen, selectedUser, editForm, fetchState, ops, serialUsers>>
    /\ Render(FALSE, filteredUsers)

----------------------------------------------------------------------------
(* Edit modal *)

\* openEditModal without its setEditForm call
openEditModal_KeepForm(k) ==
    /\ Page
    /\ UNCHANGED <<fetched, identityStore>>
    /\ k \in Rows
    /\ selectedUser' = filteredUsers[k]
    /\ isModalOpen' = TRUE
    /\ lastConfirm' = "none"
    /\ UNCHANGED <<authUser, users, searchTerm, filterRole, filterStatus, isLoading,
                   error, editForm, fetchState, ops, serialUsers>>
    /\ Render(FALSE, filteredUsers)

\* the Edit button of row k
openEditModal(k) ==
    /\ Page
    /\ UNCHANGED <<fetched, identityStore>>
    /\ k \in Rows
    /\ selectedUser' = filteredUsers[k]
    /\ editForm' = [username |-> filteredUsers[k].username,
                    email |-> filteredUsers[k].email,
                    role |-> filteredUsers[k].role]
    /\ isModalOpen' = TRUE
    /\ lastConfirm' = "none"
    /\ UNCHANGED <<authUser, users, searchTerm, filterRole, filterStatus, isLoading,
                   error, fetchState, ops, serialUsers>>
    /\ Render(FALSE, filteredUsers)

\* the inputs of the modal: setEditForm({...editForm, field: value})
SetEditForm(form) ==
    /\ Page
    /\ UNCHANGED <<fetched, identityStore>>
    /\ ModalShown
    /\ form # editForm
    /\ editForm' = form
    /\ lastConfirm' = "none"
    /\ UNCHANGED <<authUser, users, searchTerm, filterRole, filterStatus, isLoading,
                   error, isModalOpen, selectedUser, fetchState, ops,
                   serialUsers>>
    /\ Render(FALSE, filteredUsers)

\* the Cancel button of the modal
CancelEdit ==
    /\ Page
    /\ UNCHANGED <<fetched, identityStore>>
    /\ ModalShown
    /\ isModalOpen' = FALSE
    /\ lastConfirm' = "none"
    /\ UNCHANGED <<authUser, users, searchTerm, filterRole, filterStatus, isLoading,
                   error, selectedUser, editForm, fetchState, ops,
                   serialUsers>>
    /\ Render(FALSE, filteredUsers)

----------------------------------------------------------------------------
(* handleSaveChanges *)

\* handleSaveChanges with a setError(null) before its try block
handleSaveChanges_ClearsError ==
    /\ Page
    /\ UNCHANGED <<fetched, identityStore>>
    /\ ModalShown
    /\ FreeOps # {}
    /\ selectedUser # NoUser
    /\ ops' = [ops EXCEPT ![NextOp] =
                  [kind |-> "save", target |-> selectedUser.id, users |-> users,
                   form |-> editForm, auth |-> "pending", db |-> "none"]]
    /\ error' = NULL
    /\ lastConfirm' = "none"
    /\ UNCHANGED <<authUser, users, searchTerm, filterRole, filterStatus, isLoading,
                   isModalOpen, selectedUser, editForm, fetchState,
                   serialUsers>>
    /\ Render(FALSE, filteredUsers)

\* the Save button of the modal, up to the first await: updateUserById is issued
handleSaveChanges ==
    /\ Page
    /\ UNCHANGED <<fetched, identityStore>>
    /\ ModalShown
    /\ FreeOps # {}
    /\ selectedUser # NoUser
    /\ ops' = [ops EXCEPT ![NextOp] =
                  [kind |-> "save", target |-> selectedUser.id, users |-> users,
                   form |-> editForm, auth |-> "pending", db |-> "none"]]
    /\ lastConfirm' = "none"
    /\ UNCHANGED <<authUser, users, searchTerm, filterRole, filterStatus, isLoading,
                   error, isModalOpen, selectedUser, editForm, fetchState,
                   serialUsers>>
    /\ Render(FALSE, filteredUsers)

\* handleSaveChanges without "if (authError) throw authError"
SaveAuthResolved_NoThrow(i, ok) ==
    /\ Page
    /\ identityStore' = IF ok THEN updateUserById(identityStore, ops[i].target, ops[i].form)
                              ELSE identityStore
    /\ fetched' = fetched
    /\ ops[i].kind = "save"
    /\ ops[i].auth = "pending"
    /\ ops' = [ops EXCEPT ![i].auth = IF ok THEN "ok" ELSE "error", ![i].db = "pending"]
    /\ lastConfirm' = "none"
    /\ UNCHANGED <<authUser, users, searchTerm, filterRole, filterStatus, isLoading,
                   error, isModalOpen, selectedUser, editForm, fetchState, serialUsers>>
    /\ Render(FALSE, filteredUsers)

\* updateUserById resolves; on success the update of public.users is issued
SaveAuthResolved(i, ok) ==
    /\ Page
    /\ identityStore' = IF ok THEN updateUserById(identityStore, ops[i].target, ops[i].form)
                              ELSE identityStore
    /\ fetched' = fetched
    /\ ops[i].kind = "save"
    /\ ops[i].auth = "pending"
    /\ IF ok
       THEN /\ ops' = [ops EXCEPT ![i].auth = "ok", ![i].db = "pending"]
            /\ error' = error
            /\ lastConfirm' = "none"
       ELSE /\ ops' = [ops EXCEPT ![i] = Settled(ops[i], "error", "none")]
            /\ error' = "updateError"
            /\ lastConfirm' = "none"
    /\ UNCHANGED <<authUser, users, searchTerm, filterRole, filterStatus, isLoading,
                   isModalOpen, selectedUser, editForm, fetchState,
                   serialUsers>>
    /\ Render(FALSE, filteredUsers)

\* handleSaveChanges without "if (dbError) throw dbError"
SaveDbResolved_NoThrow(i, ok) ==
    /\ Page
    /\ UNCHANGED <<fetched, identityStore>>
    /\ ops[i].kind = "save"
    /\ ops[i].db = "pending"
    /\ ops' = [ops EXCEPT ![i] = Settled(ops[i], ops[i].auth, IF ok THEN "ok" ELSE "error")]
    /\ users' = PatchUsers(ops[i].users, ops[i].target, ops[i].form)
    /\ isModalOpen' = FALSE
    /\ serialUsers' = IF ok THEN PatchUsers(serialUsers, ops[i].target, ops[i].form)
                      ELSE serialUsers
    /\ lastConfirm' = "none"
    /\ UNCHANGED <<authUser, searchTerm, filterRole, filterStatus, isLoading, error,
                   selectedUser, editForm, fetchState>>
    /\ Render(TRUE, filteredUsers)

\* handleSaveChanges with a catch block that puts the identity record back
\* to what the captured list holds
SaveDbResolved_Compensates(i, ok) ==
    /\ Page
    /\ ops[i].kind = "save"
    /\ ops[i].db = "pending"
    /\ fetched' = fetched
    /\ IF ok
       THEN /\ ops' = [ops EXCEPT ![i] = Settled(ops[i], ops[i].auth, "ok")]
            /\ users' = PatchUsers(ops[i].users, ops[i].target, ops[i].form)
            /\ isModalOpen' = FALSE
            /\ error' = error
            /\ serialUsers' = PatchUsers(serialUsers, ops[i].target, ops[i].form)
            /\ lastConfirm' = "none"
            /\ UNCHANGED <<authUser, searchTerm, filterRole, filterStatus, isLoading,
                           selectedUser, editForm, fetchState, identityStore>>
            /\ Render(TRUE, filteredUsers)
       ELSE /\ ops' = [ops EXCEPT ![i] = Settled(ops[i], ops[i].auth, "error")]
            /\ error' = "updateError"
            /\ lastConfirm' = "none"
            /\ identityStore' =
                  {r \in identityStore : r.id # ops[i].target}
                  \cup {IdentityOf(ops[i].users[k]) :
                           k \in {j \in DOMAIN ops[i].users : ops[i].users[j].id = ops[i].target}}
            /\ UNCHANGED <<authUser, users, searchTerm, filterRole, filterStatus,
                           isLoading, isModalOpen, selectedUser, editForm,
                           fetchState, serialUsers>>
            /\ Render(FALSE, filteredUsers)

\* the update of public.users resolves
SaveDbResolved(i, ok) ==
    /\ Page
    /\ UNCHANGED <<fetched, identityStore>>
    /\ ops[i].kind = "save"
    /\ ops[i].db = "pending"
    /\ IF ok
       THEN /\ ops' = [ops EXCEPT ![i] = Settled(ops[i], ops[i].auth, "ok")]
            /\ users' = PatchUsers(ops[i].users, ops[i].target, ops[i].form)
            /\ isModalOpen' = FALSE
            /\ error' = error
            /\ serialUsers' = PatchUsers(serialUsers, ops[i].target, ops[i].form)
            /\ lastConfirm' = "none"
            /\ UNCHANGED <<authUser, searchTerm, filterRole, filterStatus, isLoading,
                           selectedUser, editForm, fetchState>>
            /\ Render(TRUE, filteredUsers)
       ELSE /\ ops' = [ops EXCEPT ![i] = Settled(ops[i], ops[i].auth, "error")]
            /\ error' = "updateError"
            /\ lastConfirm' = "none"
            /\ UNCHANGED <<authUser, users, searchTerm, filterRole, filterStatus,
                           isLoading, isModalOpen, selectedUser, editForm,
                           fetchState, serialUsers>>
            /\ Render(FALSE, filteredUsers)

----------------------------------------------------------------------------
(* deleteUser *)

\* deleteUser without the window.confirm guard
deleteUser_NoConfirm(k, confirmed) ==
    /\ Page
    /\ UNCHANGED <<fetched, identityStore>>
    /\ k \in Rows
    /\ FreeOps # {}
    /\ ops' = [ops EXCEPT ![NextOp] =
                  [kind |-> "delete", target |-> filteredUsers[k].id,
                   users |-> users, form |-> EmptyForm,
                   auth |-> "pending", db |-> "none"]]
    /\ lastConfirm' = IF confirmed THEN "accepted" ELSE "declined"
    /\ UNCHANGED <<authUser, users, searchTerm, filterRole, filterStatus, isLoading,
                   error, isModalOpen, selectedUser, editForm, fetchState,
                   serialUsers>>
    /\ Render(FALSE, filteredUsers)

\* deleteUser started from a table that renders users, not filteredUsers
deleteUser_FromUsers(k, confirmed) ==
    /\ Page
    /\ UNCHANGED <<fetched, identityStore>>
    /\ ~isLoading
    /\ k \in 1..Len(users)
    /\ IF confirmed
       THEN /\ FreeOps # {}
            /\ ops' = [ops EXCEPT ![NextOp] =
                          [kind |-> "delete", target |-> users[k].id,
                           users |-> users, form |-> EmptyForm,
                           auth |-> "pending", db |-> "none"]]
            /\ lastConfirm' = "accepted"
       ELSE /\ ops' = ops
            /\ lastConfirm' = "declined"
    /\ UNCHANGED <<authUser, users, searchTerm, filterRole, filterStatus, isLoading,
                   error, isModalOpen, selectedUser, editForm, fetchState,
                   serialUsers>>
    /\ Render(FALSE, filteredUsers)

\* the Delete button of row k and the answer to window.confirm, up to the
\* first await: auth.admin.deleteUser is issued
deleteUser(k, confirmed) ==
    /\ Page
    /\ UNCHANGED <<fetched, identityStore>>
    /\ k \in Rows
    /\ IF confirmed
       THEN /\ FreeOps # {}
            /\ ops' = [ops EXCEPT ![NextOp] =
                          [kind |-> "delete", target |-> filteredUsers[k].id,
                           users |-> users, form |-> EmptyForm,
                           auth |-> "pending", db |-> "none"]]
            /\ lastConfirm' = "accepted"
       ELSE /\ ops' = ops
            /\ lastConfirm' = "declined"
    /\ UNCHANGED <<authUser, users, searchTerm, filterRole, filterStatus, isLoading,
                   error, isModalOpen, selectedUser, editForm, fetchState,
                   serialUsers>>
    /\ Render(FALSE, filteredUsers)

\* deleteUser without "if (authError) throw authError"
DeleteAuthResolved_NoThrow(i, ok) ==
    /\ Page
    /\ identityStore' = IF ok THEN authDeleteUser(identityStore, ops[i].target)
                              ELSE identityStore
    /\ fetched' = fetched
    /\ ops[i].kind = "delete"
    /\ ops[i].auth = "pending"
    /\ ops' = [ops EXCEPT ![i].auth = IF ok THEN "ok" ELSE "error", ![i].db = "pending"]
    /\ lastConfirm' = "none"
    /\ UNCHANGED <<authUser, users, searchTerm, filterRole, filterStatus, isLoading,
                   error, isModalOpen, selectedUser, editForm, fetchState, serialUsers>>
    /\ Render(FALSE, filteredUsers)

\* auth.admin.deleteUser resolves; on success the delete of public.users is issued
DeleteAuthResolved(i, ok) ==
    /\ Page
    /\ identityStore' = IF ok THEN authDeleteUser(identityStore, ops[i].target)
                              ELSE identityStore
    /\ fetched' = fetched
    /\ ops[i].kind = "delete"
    /\ ops[i].auth = "pending"
    /\ IF ok
       THEN /\ ops' = [ops EXCEPT ![i].auth = "ok", ![i].db = "pending"]
            /\ error' = error
            /\ lastConfirm' = "none"
       ELSE /\ ops' = [ops EXCEPT ![i] = Settled(ops[i], "error", "none")]
            /\ error' = "deleteError"
            /\ lastConfirm' = "none"
    /\ UNCHANGED <<authUser, users, searchTerm, filterRole, filterStatus, isLoading,
                   isModalOpen, selectedUser, editForm, fetchState,
                   serialUsers>>
    /\ Render(FALSE, filteredUsers)

\* the delete of public.users resolves
DeleteDbResolved(i, ok) ==
    /\ Page
    /\ UNCHANGED <<fetched, identityStore>>
    /\ ops[i].kind = "delete"
    /\ ops[i].db = "pending"
    /\ IF ok
       THEN /\ ops' = [ops EXCEPT ![i] = Settled(ops[i], ops[i].auth, "ok")]
            /\ users' = RemoveUser(ops[i].users, ops[i].target)
            /\ error' = error
            /\ serialUsers' = RemoveUser(serialUsers, ops[i].target)
            /\ lastConfirm' = "none"
            /\ UNCHANGED <<authUser, searchTerm, filterRole, filterStatus, isLoading,
                           isModalOpen, selectedUser, editForm, fetchState>>
            /\ Render(TRUE, filteredUsers)
       ELSE /\ ops' = [ops EXCEPT ![i] = Settled(ops[i], ops[i].auth, "error")]
            /\ error' = "deleteError"
            /\ lastConfirm' = "none"
            /\ UNCHANGED <<authUser, users, searchTerm, filterRole, filterStatus,
                           isLoading, isModalOpen, selectedUser, editForm,
                           fetchState, serialUsers>>
            /\ Render(FALSE, filteredUsers)

----------------------------------------------------------------------------
(* Specification *)

Next ==
    \/ \E data \in FetchResults : FetchSuccess(data)
    \/ FetchFailure
    \/ Reload
    \/ \E s \in Sessions : SessionChange(s)
    \/ \E t \in SearchTerms : SetSearchTerm(t)
    \/ \E r \in RoleInputs : SetFilterRole(r)
    \/ \E s \in StatusInputs : SetFilterStatus(s)
    \/ ResetFilters
    \/ \E k \in 1..MaxUsers : openEditModal(k)
    \/ \E v \in DraftNames : SetEditForm([editForm EXCEPT !.username = v])
    \/ \E v \in DraftEmails : SetEditForm([editForm EXCEPT !.email = v])
    \/ \E v \in DraftRoles : SetEditForm([editForm EXCEPT !.role = v])
    \/ CancelEdit
    \/ handleSaveChanges
    \/ \E i \in OpIds, ok \in BOOLEAN : SaveAuthResolved(i, ok)
    \/ \E i \in OpIds, ok \in BOOLEAN : SaveDbResolved(i, ok)
    \/ \E k \in 1..MaxUsers, confirmed \in BOOLEAN : deleteUser(k, confirmed)
    \/ \E i \in OpIds, ok \in BOOLEAN : DeleteAuthResolved(i, ok)
    \/ \E i \in OpIds, ok \in BOOLEAN : DeleteDbResolved(i, ok)

Spec == Init /\ [][Next]_vars

----------------------------------------------------------------------------
(* The filter alone: the page of an admin, the fetch returning any list of *)
(* records, and the three criteria set to any of their values.             *)

\* usernames and emails of the records the fetch returns
FilterNames == {<<"A", "b">>, <<"b", "a">>, <<"B">>}

FilterEmails == {<<"a">>, <<"b", "A">>}

\* the values typed into the search input
FilterTerms == {<<>>, <<"a">>, <<"A", "B">>, <<"b", "A">>, <<"a", "b", "a">>}

\* the records the backend may hold for an id
FilterRecords(i) ==
    {[id |-> i, username |-> n, email |-> e, role |-> r, created_at |-> i] :
        n \in FilterNames, e \in FilterEmails, r \in Roles}

\* what select('*').order('created_at', { ascending: false }) may return
FilterData ==
    UNION {{us \in [1..n -> UNION {FilterRecords(i) : i \in Ids}] :
                \A k \in 1..n : \A j \in 1..n : k < j => us[k].created_at > us[j].created_at}
           : n \in 0..MaxUsers}

InitFilter ==
    /\ authUser = "admin"
    /\ Mount

NextFilter ==
    \/ \E data \in FilterData : FetchSuccess(data)
    \/ \E t \in FilterTerms : SetSearchTerm(t)
    \/ \E r \in RoleOptions : SetFilterRole(r)
    \/ \E s \in StatusOptions : SetFilterStatus(s)
    \/ ResetFilters

SpecFilter == InitFilter /\ [][NextFilter]_vars

----------------------------------------------------------------------------
(* Steps of the async handlers, as seen in a pair of states *)

Pending == {i \in OpIds : ops[i].auth = "pending" \/ ops[i].db = "pending"}

\* call i of the given kind runs its success continuation in this step
Succeeds(i, kind) ==
    ops[i].kind = kind /\ ops[i].db = "pending" /\ ops'[i].db = "ok"

\* call i of the given kind runs its catch block in this step
Fails(i, kind) ==
    /\ ops[i].kind = kind
    /\ \/ ops[i].auth = "pending" /\ ops'[i].auth = "error"
       \/ ops[i].db = "pending" /\ ops'[i].db = "error"

FormOf(u) == [username |-> u.username, email |-> u.email, role |-> u.role]

\* the view is mounted anew in this step: the page is reloaded or the
\* session changes
Remount == Reload \/ \E s \in Sessions : SessionChange(s)

\* the profile call of call i fails in this step, after its identity call
\* has succeeded
PartialFailure(i) ==
    ops[i].auth = "ok" /\ ops[i].db = "pending" /\ ops'[i].db = "error"

\* what the identity store (auth.users) and the profile store (public.users,
\* which holds serialUsers of the fetched records) hold for an id
IdentityRecord(id) == {r \in identityStore : r.id = id}

ProfileRecord(id) ==
    {IdentityOf(serialUsers[k]) : k \in {j \in 1..Len(serialUsers) : serialUsers[j].id = id}}

\* the two stores agree on the id: both hold it with the same email and
\* username, or neither holds it
StoresAgree(id) == IdentityRecord(id) = ProfileRecord(id)

----------------------------------------------------------------------------
(* Claims *)

\* C1: no races: once every started save and delete has settled, the local
\* user list is the fetched list with the effect of each successful operation
\* applied in completion order (serialUsers); no completed delete is undone
\* and no completed edit is lost.
C1_SerialOutcome ==
    (Page /\ Pending = {}) => users = serialUsers

\* C2: in every settled state the filtered list is the order-preserving
\* sub-list of the user list made of exactly the records that match the
\* current searchTerm, filterRole and filterStatus.
C2_FilteredIsDerived ==
    /\ Len(filteredUsers) <= Len(users)
    /\ \E pos \in [1..Len(filteredUsers) -> 1..Len(users)] :
          /\ \A a, b \in 1..Len(filteredUsers) : a < b => pos[a] < pos[b]
          /\ \A a \in 1..Len(filteredUsers) : filteredUsers[a] = users[pos[a]]
          /\ \A k \in 1..Len(users) :
                (\E a \in 1..Len(filteredUsers) : pos[a] = k)
                    <=> Matches(users[k], searchTerm, filterRole, filterStatus)

\* a successful save or delete has changed the list, and the criteria keep
\* some of its records out of the filtered list
C2_Witness ==
    /\ \E i \in OpIds : ops[i].db = "ok"
    /\ filteredUsers # <<>>
    /\ Len(filteredUsers) < Len(users)
    /\ searchTerm # <<>>

\* C3: a successful save changes exactly the selected record's username,
\* email and role to the draft values; the list length, the order, every
\* other record, and that record's id and created_at are unchanged.
C3_SaveFrame ==
    [][\A i \in OpIds :
          Succeeds(i, "save") =>
              /\ Len(users') = Len(users)
              /\ \A k \in 1..Len(users) :
                    IF users[k].id = ops[i].target
                    THEN /\ users'[k].id = users[k].id
                         /\ users'[k].created_at = users[k].created_at
                         /\ FormOf(users'[k]) = ops[i].form
                    ELSE users'[k] = users[k]]_vars

\* C4: a successful delete removes exactly the one entry whose id matches
\* from the list as it is when the delete completes; the remaining entries
\* are unchanged and keep their relative order.
C4_DeleteFrame ==
    [][\A i \in OpIds :
          Succeeds(i, "delete") =>
              /\ Len(users) - Len(users') <= 1
              /\ users' = SelectSeq(users, LAMBDA u : u.id # ops[i].target)]_vars

\* C5: if either backend update of a save fails, the local user list is
\* identical to what it was before the save was started, and the error
\* message is set.
C5_ListAsBeforeSaveStarted ==
    [][\A i \in OpIds :
          Fails(i, "save") => users' = ops[i].users /\ error' # NULL]_vars

\* C5, amended: if either backend update of a save fails, the failed save
\* itself changes nothing in the local user list (the list is identical to
\* what it was immediately before the failure was handled), and the error
\* message is set.
C5_FailedSaveChangesNothing ==
    [][\A i \in OpIds :
          Fails(i, "save") => users' = users /\ error' # NULL]_vars

\* a save has failed while the list holds records
C5_Witness ==
    /\ \E i \in OpIds : ops[i].kind = "save" /\ "error" \in {ops[i].auth, ops[i].db}
    /\ error = "updateError"
    /\ users # <<>>

\* C6: if either backend delete of a confirmed delete fails, the local user
\* list is unchanged, the record is still present, and the error message is
\* set.
C6_RecordStillPresent ==
    [][\A i \in OpIds :
          Fails(i, "delete") =>
              /\ users' = users
              /\ ops[i].target \in IdsOf(users')
              /\ error' # NULL]_vars

\* C6, amended: if either backend delete of a confirmed delete fails, the
\* failed delete changes nothing in the local user list (the record is still
\* present if it was present when the failure was handled), and the error
\* message is set.
C6_FailedDeleteChangesNothing ==
    [][\A i \in OpIds :
          Fails(i, "delete") =>
              /\ users' = users
              /\ ops[i].target \in IdsOf(users) => ops[i].target \in IdsOf(users')
              /\ error' # NULL]_vars

\* a delete has failed and its record is still listed
C6_Witness ==
    /\ \E i \in OpIds : ops[i].kind = "delete" /\ "error" \in {ops[i].auth, ops[i].db}
    /\ error = "deleteError"
    /\ users # <<>>

\* C7: when the confirmation dialog is declined, no backend delete call is
\* issued and the user list, the filtered list and the error message are
\* unchanged.
C7_DeclinedChangesNothing ==
    [][lastConfirm' = "declined" =>
          /\ ops' = ops
          /\ users' = users
          /\ filteredUsers' = filteredUsers
          /\ error' = error]_vars

\* a delete was declined on a row of a loaded list
C7_Witness ==
    /\ lastConfirm = "declined"
    /\ filteredUsers # <<>>

\* C8: after a failed fetch the error message is set, loading is false, and
\* both the user list and the filtered list are empty, in every later state
\* of the mount.
C8_FailedFetchHoldsNothing ==
    fetchState = "failed" =>
        /\ error # NULL
        /\ ~isLoading
        /\ users = <<>>
        /\ filteredUsers = <<>>

\* the fetch has failed and the page has been used since
C8_Witness ==
    /\ fetchState = "failed"
    /\ searchTerm # <<>>
    /\ filterRole # ""

\* C9: within one save or delete the profile-store call is issued only after
\* the identity-store call of that operation succeeded; when the
\* identity-store call fails the profile-store call is never issued.
C9_ProfileAfterIdentity ==
    \A i \in OpIds :
        /\ ops[i].db # "none" => ops[i].auth = "ok"
        /\ ops[i].auth \in {"pending", "error"} => ops[i].db = "none"

\* one call has got to its profile-store call, another stopped at a failed
\* identity-store call
C9_Witness ==
    \E i, j \in OpIds :
        /\ ops[i].db \in {"pending", "ok", "error"}
        /\ ops[j].auth = "error"
        /\ ops[i].kind # ops[j].kind

----------------------------------------------------------------------------
(* C11: whenever the session has no user or a user whose role is not       *)
(* admin, the view holds and shows nothing: no fetch of the users has been *)
(* issued, no record is held or shown as a row, the modal is not shown,    *)
(* and no save or delete call exists.                                      *)
C11_NonAdminOnlyRedirects ==
    authUser # "admin" =>
        /\ fetchState = "none"
        /\ users = <<>> /\ filteredUsers = <<>>
        /\ Rows = {} /\ ~ModalShown
        /\ \A i \in OpIds : ops[i] = NoOp
        /\ ~ENABLED \/ \E k \in 1..MaxUsers : openEditModal(k)
                    \/ \E k \in 1..MaxUsers, confirmed \in BOOLEAN : deleteUser(k, confirmed)
                    \/ handleSaveChanges

\* a signed-in user who is not an admin is on the page
C11_Witness == authUser = "moderator"

----------------------------------------------------------------------------
\* the two characters are the same letter, whatever their case
C12_SameLetter(c, d) == c = d \/ {c, d} \in {{"a", "A"}, {"b", "B"}}

\* t occurs in s as a contiguous run of letters, whatever their case
C12_ContainsIgnoringCase(s, t) ==
    \E i \in 0..(Len(s) - Len(t)) :
        \A j \in 1..Len(t) : C12_SameLetter(s[i + j], t[j])

(* C12: with no role and no status filter, a record of the list is in the  *)
(* filtered list exactly when its username or its email contains the       *)
(* search text case-insensitively; the empty search text keeps every       *)
(* record; the filtered list holds records of the list only.               *)
C12_SearchIgnoresCase ==
    (filterRole = "" /\ filterStatus = "") =>
        /\ \A k \in 1..Len(users) :
              (\E j \in 1..Len(filteredUsers) : filteredUsers[j] = users[k])
              <=> \/ C12_ContainsIgnoringCase(users[k].username, searchTerm)
                  \/ C12_ContainsIgnoringCase(users[k].email, searchTerm)
        /\ \A j \in 1..Len(filteredUsers) : \E k \in 1..Len(users) : filteredUsers[j] = users[k]
        /\ searchTerm = <<>> => filteredUsers = users

\* a search text in mixed case that no field contains as typed keeps one of
\* two records
C12_Witness ==
    /\ filterRole = "" /\ filterStatus = ""
    /\ searchTerm = <<"A", "B">>
    /\ Len(users) = 2 /\ Len(filteredUsers) = 1
    /\ filteredUsers[1].username = <<"A", "b">>

----------------------------------------------------------------------------
(* C13: the empty role filter keeps the records of every role, and a role  *)
(* filter of admin, moderator or user keeps exactly the records of that    *)
(* role, in the order of the list (search text and status filter empty);   *)
(* whatever the other criteria, every record kept has the role filtered    *)
(* by.                                                                     *)
C13_RoleFilter ==
    /\ (searchTerm = <<>> /\ filterStatus = "") =>
          /\ filterRole = "" => filteredUsers = users
          /\ filterRole \in Roles =>
                filteredUsers = SelectSeq(users, LAMBDA u : u.role = filterRole)
    /\ filterRole \in Roles =>
          \A j \in 1..Len(filteredUsers) : filteredUsers[j].role = filterRole

\* an admin record followed by a user record, filtered by the role user:
\* exactly the second record is kept
C13_Witness ==
    /\ searchTerm = <<>> /\ filterStatus = ""
    /\ Len(users) = 2 /\ users[1].role = "admin" /\ users[2].role = "user"
    /\ filterRole = "user"
    /\ filteredUsers = <<users[2]>>

----------------------------------------------------------------------------
(* C14: filtering is idempotent: the filter applied with the current       *)
(* criteria to the filtered list, which is the list filtered with these    *)
(* criteria, yields the filtered list again.                               *)
C14_FilterIdempotent ==
    /\ filteredUsers = Filtered(users, searchTerm, filterRole, filterStatus)
    /\ Filtered(filteredUsers, searchTerm, filterRole, filterStatus) = filteredUsers

\* a search text and a role filter that keep one record of two
C14_Witness ==
    /\ searchTerm = <<"b", "A">> /\ filterRole = "moderator" /\ filterStatus = "active"
    /\ Len(users) = 2 /\ Len(filteredUsers) = 1

----------------------------------------------------------------------------
\* the list as the search text and the role filter alone determine it
C15_BySearchAndRole ==
    SelectSeq(users, LAMBDA u : matchesSearch(u, searchTerm) /\ matchesRole(u, filterRole))

(* C15, as claimed: the status control has no effect, the filtered list is *)
(* what the search text and the role filter determine whatever the value   *)
(* of the status control.                                                  *)
C15_StatusIsNoOp == filteredUsers = C15_BySearchAndRole

(* C15, amended: the status filter does not tell one record from another:  *)
(* with the status control at '' or 'active' the filtered list is what the *)
(* search text and the role filter determine, and with 'blocked' it is     *)
(* empty.                                                                  *)
C15_StatusKeepsAllOrNone ==
    /\ filterStatus \in {"", "active"} => filteredUsers = C15_BySearchAndRole
    /\ filterStatus = "blocked" => filteredUsers = <<>>

\* the status filter blocked empties a list of two records that the other
\* criteria keep
C15_Witness ==
    /\ filterStatus = "blocked"
    /\ Len(users) = 2 /\ Len(C15_BySearchAndRole) = 2
    /\ filteredUsers = <<>>

----------------------------------------------------------------------------
----------------------------------------------------------------------------
\* fetchUsers is issued by mounting the view, never by a step within a
\* mount, and loading is true exactly while it is pending
C17_OneFetchThenLoaded ==
    /\ (fetchState' = "pending" /\ fetchState # "pending") => Remount
    /\ (fetchState \in {"ok", "failed"} /\ ~Remount) => fetchState' = fetchState
    /\ (fetchState = "pending" /\ fetchState' \in {"ok", "failed"}) => ~isLoading'
    /\ (~isLoading /\ ~Remount) => ~isLoading'

\* fetchUsers resolves with records in this step
C17_FetchSucceeds == fetchState = "pending" /\ fetchState' = "ok"

(* C17, as claimed: for an admin session one fetch is issued per mount;    *)
(* once it completes loading is false and stays false; when it succeeds    *)
(* the list and the filtered list both hold the fetched records in the     *)
(* order returned.                                                         *)
C17_BothListsPopulated ==
    /\ [](Page => (fetchState # "none" /\ (isLoading <=> fetchState = "pending")))
    /\ [][/\ C17_OneFetchThenLoaded
          /\ C17_FetchSucceeds => (users' = fetched' /\ filteredUsers' = fetched')]_vars

(* C17, amended: for an admin session one fetch is issued per mount; once  *)
(* it completes loading is false and stays false; when it succeeds the     *)
(* list holds the fetched records in the order returned, and the filtered  *)
(* list holds, in the same order, those of them that match the search text *)
(* and the filters entered while the fetch was pending: all of them when   *)
(* none was entered.                                                       *)
C17_ListPopulatedAndFiltered ==
    /\ [](Page => (fetchState # "none" /\ (isLoading <=> fetchState = "pending")))
    /\ [][/\ C17_OneFetchThenLoaded
          /\ C17_FetchSucceeds =>
                /\ users' = fetched'
                /\ filteredUsers' =
                      SelectSeq(fetched', LAMBDA u : Matches(u, searchTerm, filterRole, filterStatus))
                /\ (searchTerm = <<>> /\ filterRole = "" /\ filterStatus = "") =>
                      filteredUsers' = fetched']_vars

\* the fetch has returned two records while a search text was in the input,
\* and one of them is shown
C17_Witness ==
    /\ fetchState = "ok" /\ ~isLoading
    /\ \A i \in OpIds : ops[i] = NoOp
    /\ searchTerm # <<>>
    /\ Len(fetched) = 2 /\ users = fetched /\ Len(filteredUsers) = 1

----------------------------------------------------------------------------
(* C18: once the error is set, by a failed fetch, save or delete, it is    *)
(* set in every later state of the same mount: no step other than mounting *)
(* the view anew takes the banner away, whatever succeeds in the meantime. *)
C18_ErrorStaysUntilRemount ==
    [][/\ (error # NULL /\ ~Remount) => (error' # NULL /\ BannerShown')
       /\ (error = NULL /\ error' # NULL) =>
             \/ fetchState = "pending" /\ fetchState' = "failed"
             \/ \E i \in OpIds : Fails(i, "save") \/ Fails(i, "delete")]_vars

\* the banner of a failed delete is still shown after a save has succeeded
C18_Witness ==
    /\ error = "deleteError"
    /\ \E i \in OpIds : ops[i].kind = "save" /\ ops[i].db = "ok"
    /\ Pending = {}

----------------------------------------------------------------------------
(* C19: a save or a delete is started only when the fetch has succeeded    *)
(* and loading is false, a delete from a row of the filtered list and a    *)
(* save from the modal, which is opened from a row of the filtered list;   *)
(* so while the fetch is pending, and at any time after it has failed, no  *)
(* save or delete call has been issued and the modal is not shown.         *)
C19_NoMutationWithoutRows ==
    /\ [](fetchState \in {"pending", "failed"} =>
            /\ \A i \in OpIds : ops[i] = NoOp
            /\ Rows = {} /\ ~ModalShown)
    /\ [][/\ \A i \in OpIds :
               (ops[i] = NoOp /\ ops'[i] # NoOp) =>
                   /\ ~isLoading /\ fetchState = "ok"
                   /\ ops'[i].auth = "pending"
                   /\ ops'[i].kind = "delete" => ops'[i].target \in IdsOf(filteredUsers)
                   /\ ops'[i].kind = "save" =>
                         (ModalShown /\ ops'[i].target = selectedUser.id)
          /\ (selectedUser' # selectedUser /\ ~Remount) =>
                /\ ~isLoading /\ fetchState = "ok"
                /\ \E k \in Rows : filteredUsers[k] = selectedUser']_vars

\* the fetch has failed and the user has looked for records since: there is
\* no row, no modal and no call
C19_Witness ==
    /\ fetchState = "failed" /\ ~isLoading
    /\ searchTerm # <<>> /\ filterRole # ""
    /\ \A i \in OpIds : ops[i] = NoOp

----------------------------------------------------------------------------
\* the list holds fetched ids only, each once and with the created_at it was
\* fetched with
C20_IdsOfFetched(us) ==
    /\ IdsOf(us) \subseteq IdsOf(fetched)
    /\ Cardinality(IdsOf(us)) = Len(us)
    /\ \A k \in 1..Len(us) : \E j \in 1..Len(fetched) :
          us[k].id = fetched[j].id /\ us[k].created_at = fetched[j].created_at

(* C20: whatever saves and deletes have been started and have completed,   *)
(* in whatever order, the ids of the local list are ids the fetch of the   *)
(* mount returned and none occurs twice; the same holds of the filtered    *)
(* list and of the list every pending call has captured, so no call adds   *)
(* an id or changes one.                                                   *)
C20_IdsPreserved ==
    /\ C20_IdsOfFetched(users)
    /\ C20_IdsOfFetched(filteredUsers)
    /\ \A i \in OpIds : C20_IdsOfFetched(ops[i].users)
    /\ \A i \in OpIds : ops[i].target # 0 => ops[i].target \in IdsOf(fetched)

\* a delete and a save of the other record have both succeeded, the save
\* last and from a list captured before the delete: both ids are in the list
C20_Witness ==
    /\ \E i \in OpIds : ops[i].kind = "delete" /\ ops[i].db = "ok"
    /\ \E i \in OpIds : ops[i].kind = "save" /\ ops[i].db = "ok"
    /\ Len(fetched) = 2 /\ Len(users) = 2
    /\ users # fetched
====
